---- MODULE Spec2Model ----
(***************************************************************************)
(* pulsar-companion: the argument parser (src/src/ArgumentParser.js), the  *)
(* session orchestrator PulsarManager and the two entry points (main CLI   *)
(* and load generator, src/unnamed/part_000 and part_001), the producer    *)
(* wrapper (src/src/ConfigManager.js) and the consumption loop             *)
(* (src/src/PulsarConsumer.js).                                            *)
(*                                                                         *)
(* JavaScript values are tagged records: Str(s), Num(n), NaN, Null,        *)
(* Undefined.  Command-line tokens are TLA+ strings and the string         *)
(* primitives (trim, toUpperCase, toLowerCase, parseInt, Date.parse) are   *)
(* computed character by character.                                        *)
(***************************************************************************)
EXTENDS Integers, Sequences, FiniteSets, TLC

\* ------------------------------------------------------------------ bounds
MaxItems == 3       \* flag items in an argument list given to the validator
MaxRunItems == 2    \* flag items in an argument list of a modelled run
MaxMsgs == 2        \* messages the broker delivers in a modelled run
MaxTimeouts == 2    \* consecutive receive timeouts that are told apart
MaxCleanups == 2    \* calls of cleanup() on a manager that created nothing

\* ------------------------------------------------------- JavaScript values
Str(s) == [t |-> "string", s |-> s]
Num(n) == [t |-> "number", n |-> n]
NaN == [t |-> "NaN"]
Null == [t |-> "null"]
Undefined == [t |-> "undefined"]

\* ToBoolean: "", 0, NaN, null and undefined are falsy.
Truthy(v) ==
  CASE v.t = "string" -> v.s # ""
    [] v.t = "number" -> v.n # 0
    [] OTHER -> FALSE

\* a || b
Or(a, b) == IF Truthy(a) THEN a ELSE b

\* isNaN(v) for a number-typed value.
IsNaN(v) == v.t = "NaN"

\* --------------------------------------------------------- string functions
CharAt(s, i) == SubSeq(s, i, i)

Digits == "0123456789"
LowerLetters == "abcdefghijklmnopqrstuvwxyz"
UpperLetters == "ABCDEFGHIJKLMNOPQRSTUVWXYZ"

\* Position of the one-character string c in alphabet, 0 when absent.
PosIn(c, alphabet) ==
  IF \E i \in 1..Len(alphabet) : CharAt(alphabet, i) = c
  THEN CHOOSE i \in 1..Len(alphabet) : CharAt(alphabet, i) = c
  ELSE 0

IsDigit(c) == PosIn(c, Digits) # 0
DigitVal(c) == PosIn(c, Digits) - 1
IsSpace(c) == c = " "

UpperChar(c) == IF PosIn(c, LowerLetters) # 0 THEN CharAt(UpperLetters, PosIn(c, LowerLetters)) ELSE c
LowerChar(c) == IF PosIn(c, UpperLetters) # 0 THEN CharAt(LowerLetters, PosIn(c, UpperLetters)) ELSE c

RECURSIVE toUpperCase(_)
toUpperCase(s) == IF s = "" THEN "" ELSE UpperChar(CharAt(s, 1)) \o toUpperCase(SubSeq(s, 2, Len(s)))

RECURSIVE toLowerCase(_)
toLowerCase(s) == IF s = "" THEN "" ELSE LowerChar(CharAt(s, 1)) \o toLowerCase(SubSeq(s, 2, Len(s)))

RECURSIVE trimStart(_)
trimStart(s) == IF s # "" /\ IsSpace(CharAt(s, 1)) THEN trimStart(SubSeq(s, 2, Len(s))) ELSE s

RECURSIVE trimEnd(_)
trimEnd(s) == IF s # "" /\ IsSpace(CharAt(s, Len(s))) THEN trimEnd(SubSeq(s, 1, Len(s) - 1)) ELSE s

trim(s) == trimEnd(trimStart(s))

\* Number of leading decimal digits of s.
RECURSIVE DigitPrefixLen(_)
DigitPrefixLen(s) ==
  IF s # "" /\ IsDigit(CharAt(s, 1)) THEN 1 + DigitPrefixLen(SubSeq(s, 2, Len(s))) ELSE 0

\* Value of a string of decimal digits.
RECURSIVE DigitsValue(_)
DigitsValue(s) ==
  IF s = "" THEN 0 ELSE 10 * DigitsValue(SubSeq(s, 1, Len(s) - 1)) + DigitVal(CharAt(s, Len(s)))

\* JsToString of a value handed to parseInt.
JsToString(v) ==
  CASE v.t = "string" -> v.s
    [] v.t = "null" -> "null"
    [] v.t = "undefined" -> "undefined"
    [] OTHER -> "NaN"

\* parseInt(v), radix 10: leading white space, an optional sign, then the
\* longest run of digits; NaN when there is no digit.
parseInt(v) ==
  LET s == trimStart(JsToString(v))
      neg == s # "" /\ CharAt(s, 1) = "-"
      signed == s # "" /\ CharAt(s, 1) \in {"-", "+"}
      body == IF signed THEN SubSeq(s, 2, Len(s)) ELSE s
      k == DigitPrefixLen(body)
  IN  IF k = 0 THEN NaN
      ELSE Num((IF neg THEN -1 ELSE 1) * DigitsValue(SubSeq(body, 1, k)))

\* Date.parse works in milliseconds; the model counts time in days
\* (MsPerDay milliseconds each) so that year 2999 fits a 32-bit integer.
LeapDaysBefore(y) == ((y - 1) \div 4) - ((y - 1) \div 100) + ((y - 1) \div 400)
DaysFromEpoch(y) == 365 * (y - 1970) + LeapDaysBefore(y) - LeapDaysBefore(1970)

RECURSIVE HasDigit(_)
HasDigit(s) == s # "" /\ (IsDigit(CharAt(s, 1)) \/ HasDigit(SubSeq(s, 2, Len(s))))

\* The ISO 8601 year-only form "YYYY" (the only ISO form among the tokens).
IsIsoYear(s) == Len(s) = 4 /\ DigitPrefixLen(s) = 4

\* Date.parse(s): an ISO date is parsed as such; a string without any digit is
\* NaN; for any other string the result is implementation-defined, "fallback"
\* being what the engine's fallback parser answers.
DateParse(s, fallback) ==
  IF IsIsoYear(s) THEN Num(DaysFromEpoch(DigitsValue(s)))
  ELSE IF ~HasDigit(s) THEN NaN
  ELSE fallback

\* What an engine's fallback date parser may answer.
LegacyDates == {NaN, Num(DaysFromEpoch(2001))}

\* ------------------------------------------------------------------ state
VARIABLES
  tool,          \* which entry point runs: "main" or "stress"
  args,          \* process.argv.slice(2)
  params,        \* argParser.params: zero-based index of each flag, -1 if absent
  legacy,        \* what the engine's fallback date parser answers
  mode,          \* argParser.mode
  pc,            \* position of main()
  vres,          \* outcome of validateArgs, kind "none" before it ran
  err,           \* the error caught by main's catch, "none" if none
  exit,          \* "running", or the status process.exit was called with
  client,        \* pulsarManager.client: "null", "open", "closed"
  ioThreads,     \* ioThreads the client was created with, 0 before
  producer,      \* pulsarManager.producer: "null", "wrapper", "open", "closed"
  consumer,      \* pulsarManager.consumer: "null", "wrapper", "open", "closed"
  consumerKind,  \* "none", "reader" or "subscriber"
  subscriptionType, \* type handed to client.subscribe, "none" before
  readerStart,   \* startMessageId of the reader, "none" before
  seeks,         \* timestamps handed to reader.seekTimestamp
  orphan,        \* a reader was created but never stored in the wrapper
  readerNow,     \* new Date() taken by createReader for a timestamp, 0 if not taken
  cleanups,      \* calls of cleanup() that returned without an error
  closeLog,      \* handles on which close() was called, in order
  received,      \* messages returned by receive/readNext
  logged,        \* messages formatted and logged by handleMessage
  acked,         \* calls of acknowledge
  timeouts,      \* consecutive receive timeouts so far
  recvOutcome,   \* outcome of the latest receive call
  messageCount,  \* the load generator's messageCount, 0 in the main CLI
  delayMs,       \* the load generator's delayMs, 0 in the main CLI
  sent,          \* messages handed to producer.send that succeeded
  i,             \* loop counter of the load generator
  progress,      \* progress lines logged by the load generator
  sleeps         \* sleeps taken by the load generator

vars ==
  <<tool, args, params, legacy, mode, pc, vres, err, exit, client, ioThreads, producer,
    consumer, consumerKind, subscriptionType, readerStart, seeks, orphan,
    readerNow, cleanups, closeLog, received, logged, acked, timeouts, recvOutcome, messageCount,
    delayMs, sent, i, progress, sleeps>>

sessionVars ==
  <<client, ioThreads, producer, consumer, consumerKind, subscriptionType,
    readerStart, seeks, orphan, readerNow, cleanups, closeLog>>
loopVars == <<received, logged, acked, timeouts, recvOutcome>>
stressVars == <<sent, i, progress, sleeps>>
inputVars == <<tool, args, params, legacy, mode, messageCount, delayMs>>

\* ------------------------------------------------------------------ CONFIG
defaultCompression == "NONE"
defaultKey == "default"
defaultReadPosition == "latest"
defaultThreads == 1
defaultTopic == "pulsar_companion"
defaultType == "Exclusive"
validCompressionTypes == {"NONE", "LZ4", "ZLIB", "ZSTD", "SNAPPY"}
validReadPositions == {"earliest", "latest"}
validTypes == {"Exclusive", "Failover", "Shared", "KeyShared"}
defaultCount == 100
defaultDelay == 10

\* ---------------------------------------------------------- ArgumentParser
\* MODES, mutated: key is also optional in CONSUMER mode.
MODESKeyInConsumer ==
  [PRODUCER |-> [required |-> <<"send">>,
                 optional |-> <<"compression", "key", "threads", "topic">>],
   CONSUMER |-> [required |-> <<>>,
                 optional |-> <<"key", "subscription", "topic", "type">>],
   READER   |-> [required |-> <<"since">>,
                 optional |-> <<"topic">>]]

MODES ==
  [PRODUCER |-> [required |-> <<"send">>,
                 optional |-> <<"compression", "key", "threads", "topic">>],
   CONSUMER |-> [required |-> <<>>,
                 optional |-> <<"subscription", "topic", "type">>],
   READER   |-> [required |-> <<"since">>,
                 optional |-> <<"topic">>]]

Range(q) == {q[x] : x \in 1..Len(q)}

\* args.indexOf(tok): zero-based index of the first occurrence, -1 if none.
indexOf(a, tok) ==
  IF \E ix \in 1..Len(a) : a[ix] = tok
  THEN (CHOOSE ix \in 1..Len(a) : a[ix] = tok /\ \A j \in 1..(ix - 1) : a[j] # tok) - 1
  ELSE -1

Max(x, y) == IF x >= y THEN x ELSE y

\* The keys of this.params in insertion order (the order of Object.entries).
ParamNames ==
  <<"compression", "help", "key", "send", "since", "subscription", "threads",
    "topic", "type", "version">>

\* this.params, as the constructor computes it.
Params(a) ==
  [compression  |-> Max(indexOf(a, "--compression"), indexOf(a, "-c")),
   help         |-> Max(indexOf(a, "--help"), indexOf(a, "-h")),
   key          |-> indexOf(a, "--key"),
   send         |-> indexOf(a, "--send"),
   since        |-> indexOf(a, "--since"),
   subscription |-> Max(indexOf(a, "--sub"), indexOf(a, "-s")),
   threads      |-> Max(indexOf(a, "--threads"), indexOf(a, "-t")),
   topic        |-> indexOf(a, "--topic"),
   type         |-> indexOf(a, "--type"),
   version      |-> Max(indexOf(a, "--version"), indexOf(a, "-v"))]

\* this.args[i] for a zero-based index i: undefined outside the array.
ArgAt(a, ix) == IF ix >= 0 /\ ix < Len(a) THEN Str(a[ix + 1]) ELSE Undefined

hasParam(param) == params[param] # -1

\* getValue(param).  For a name that is no key of this.params the index is
\* undefined: undefined !== -1 holds, args[undefined + 1] is undefined and
\* ?.trim() leaves undefined.
getValue(param) ==
  IF param \notin DOMAIN params THEN Undefined
  ELSE IF params[param] # -1
       THEN LET v == ArgAt(args, params[param] + 1)
            IN  IF v.t = "string" THEN Str(trim(v.s)) ELSE Undefined
       ELSE Null

determineModeSinceFirst ==
  IF hasParam("since") THEN "READER"
  ELSE IF hasParam("send") THEN "PRODUCER"
  ELSE "CONSUMER"

determineMode ==
  IF hasParam("send") THEN "PRODUCER"
  ELSE IF hasParam("since") THEN "READER"
  ELSE "CONSUMER"

getThreads == Or(parseInt(getValue("threads")), Num(defaultThreads))

getCompression == toUpperCase(Or(getValue("compression"), Str(defaultCompression)).s)

getReadPosition == Or(getValue("topic"), Str(defaultReadPosition))

getSubscriptionName == Or(getValue("subscription"), Str("pulsar_companion_sub"))

Ok == [kind |-> "ok", param |-> ""]
Err(kind, param) == [kind |-> kind, param |-> param]

\* validateSpecificArgs: the first check that throws decides the error.
validateSpecificArgs ==
  LET threads == getThreads
      compression == getCompression
      readPosition == getValue("topic")
      since == getValue("since")
      requestedType == getValue("type")
  IN  IF Truthy(threads) /\ (IsNaN(threads) \/ threads.n < 1)
        THEN Err("InvalidThreadCount", "threads")
      ELSE IF compression # "" /\ toUpperCase(compression) \notin validCompressionTypes
        THEN Err("InvalidCompressionType", "compression")
      ELSE IF Truthy(readPosition) /\ readPosition.s \notin validReadPositions
        THEN Err("InvalidReadPosition", "topic")
      ELSE IF Truthy(since) /\ toLowerCase(since.s) \notin {"earliest", "latest"}
                            /\ IsNaN(DateParse(since.s, legacy))
        THEN Err("InvalidSinceValue", "since")
      ELSE IF Truthy(requestedType) /\ requestedType.s \notin validTypes
        THEN Err("InvalidSubscriptionType", "type")
      ELSE Ok

\* First element of the sequence names that lies in the set S, "" when none does.
FirstIn(names, S) ==
  IF \E ix \in 1..Len(names) : names[ix] \in S
  THEN names[CHOOSE ix \in 1..Len(names) : names[ix] \in S /\ \A j \in 1..(ix - 1) : names[j] \notin S]
  ELSE ""

\* allowedParams, mutated: every parameter is allowed in every mode.
allowedParamsAll == Range(ParamNames)

allowedParams == Range(MODES[mode].required) \cup Range(MODES[mode].optional) \cup {"help", "version"}

NotAllowed(param) == params[param] # -1 /\ param \notin allowedParams

LacksValue(param) ==
  /\ params[param] # -1
  /\ ~Truthy(ArgAt(args, params[param] + 1))
  /\ param \notin {"help", "version"}

MissingRequired(param) == ~hasParam(param)

\* validateArgs with the missing-value loop run before the allowed-flag loop.
validateArgsValueFirst ==
  LET missing == FirstIn(MODES[mode].required, {p \in Range(MODES[mode].required) : MissingRequired(p)})
      forbidden == FirstIn(ParamNames, {p \in Range(ParamNames) : NotAllowed(p)})
      valueless == FirstIn(ParamNames, {p \in Range(ParamNames) : LacksValue(p)})
  IN  IF hasParam("help") THEN Err("help", "help")
      ELSE IF hasParam("version") THEN Err("version", "version")
      ELSE IF missing # "" THEN Err("MissingRequired", missing)
      ELSE IF valueless # "" THEN Err("MissingValue", valueless)
      ELSE IF forbidden # "" THEN Err("NotAllowedInMode", forbidden)
      ELSE validateSpecificArgs

\* validateArgs: "help" and "version" end the process with
\* status 0, "ok" returns, any other kind is the error thrown.
validateArgs ==
  LET missing == FirstIn(MODES[mode].required, {p \in Range(MODES[mode].required) : MissingRequired(p)})
      forbidden == FirstIn(ParamNames, {p \in Range(ParamNames) : NotAllowed(p)})
      valueless == FirstIn(ParamNames, {p \in Range(ParamNames) : LacksValue(p)})
  IN  IF hasParam("help") THEN Err("help", "help")
      ELSE IF hasParam("version") THEN Err("version", "version")
      ELSE IF missing # "" THEN Err("MissingRequired", missing)
      ELSE IF forbidden # "" THEN Err("NotAllowedInMode", forbidden)
      ELSE IF valueless # "" THEN Err("MissingValue", valueless)
      ELSE validateSpecificArgs

\* getSinceValue(): null, "earliest"/"latest" in lower case, or the timestamp.
getSinceValue ==
  LET since == getValue("since")
  IN  IF ~Truthy(since) THEN Null
      ELSE IF toLowerCase(since.s) \in {"earliest", "latest"} THEN Str(toLowerCase(since.s))
      ELSE DateParse(since.s, legacy)

\* getSubscriptionType(), mutated: a valid requested type wins over the key.
getSubscriptionTypeTypeFirst ==
  LET requestedType == getValue("type")
  IN  IF Truthy(requestedType) /\ requestedType.s \notin validTypes THEN "throw"
      ELSE IF Truthy(requestedType) THEN requestedType.s
      ELSE IF hasParam("key") THEN "KeyShared"
      ELSE defaultType

\* getSubscriptionType(): "throw" stands for the invalid-type error.
getSubscriptionType ==
  LET requestedType == getValue("type")
  IN  IF hasParam("key") THEN "KeyShared"
      ELSE IF Truthy(requestedType) /\ requestedType.s \notin validTypes THEN "throw"
      ELSE Or(requestedType, Str(defaultType)).s

\* ------------------------------------------------------------ input space
\* An argument list is a concatenation of items: a flag alone or a flag with
\* the token that follows it.  ParserItems are the items given to the
\* validator alone; a run also draws from RunItems.
ParserItems ==
  { <<"--send", "Hello">>, <<"--send">>, <<"--key", "key1">>,
    <<"--topic", "myTopic">>, <<"--topic", "earliest">>,
    <<"--threads", "0">>, <<"--threads", "abc">>, <<"--threads", "4">>, <<"-t", "-3">>,
    <<"--compression", "lz4">>, <<"-c", "FOO">>,
    <<"--type", "Failover">>, <<"--type", "failover">>, <<"-s", "my_sub">>,
    <<"--since", "earliest">>, <<"--since", "2024">>, <<"--since", "X">>,
    <<"--since", "1">>, <<"--help">>, <<"-v">> }

RunItems ==
  { <<"--since", "Latest">>, <<"--since", "EARLIEST">>, <<"--since", "2999">>,
    <<"--count", "5">>, <<"--count", "12">>, <<"--delay", "0">> }

\* The concatenations of at most k of the given items.
RECURSIVE ArgLists(_, _)
ArgLists(items, k) ==
  IF k = 0 THEN {<<>>}
  ELSE LET shorter == ArgLists(items, k - 1)
       IN  shorter \cup {p \o item : p \in shorter, item \in items}

Tools == {"main", "stress"}

\* The engine's fallback date parser matters only when --since is neither a
\* keyword nor an ISO date but holds a digit.
LegacyChoices ==
  LET since == getValue("since")
  IN  IF Truthy(since) /\ ~IsIsoYear(since.s) /\ HasDigit(since.s) THEN LegacyDates ELSE {NaN}

\* Wall-clock times (in days) at which a reader may be created.
Nows == {DaysFromEpoch(2024), DaysFromEpoch(2026)}

\* The load generator's locals, computed before its try block.
stressMessageCount == Or(parseInt(getValue("count")), Num(defaultCount)).n
stressDelayMs == Or(parseInt(getValue("delay")), Num(defaultDelay)).n

\* State after the ArgumentParser and PulsarManager constructors.
InitWith(tools, lists) ==
  /\ tool \in tools
  /\ args \in lists
  /\ params = Params(args)
  /\ legacy \in LegacyChoices
  /\ mode = determineMode
  /\ pc = "validate"
  /\ vres = [kind |-> "none", param |-> ""]
  /\ err = "none"
  /\ exit = "running"
  /\ client = "null"
  /\ ioThreads = 0
  /\ producer = "null"
  /\ consumer = "null"
  /\ consumerKind = "none"
  /\ subscriptionType = "none"
  /\ readerStart = "none"
  /\ seeks = <<>>
  /\ orphan = FALSE
  /\ readerNow = 0
  /\ cleanups = 0
  /\ closeLog = <<>>
  /\ received = 0
  /\ logged = 0
  /\ acked = 0
  /\ timeouts = 0
  /\ recvOutcome = "none"
  /\ messageCount = IF tool = "stress" THEN stressMessageCount ELSE 0
  /\ delayMs = IF tool = "stress" THEN stressDelayMs ELSE 0
  /\ sent = <<>>
  /\ i = 1
  /\ progress = 0
  /\ sleeps = 0

Init == InitWith(Tools, ArgLists(ParserItems \cup RunItems, MaxRunItems))
InitArgs == InitWith({"main"}, ArgLists(ParserItems, MaxItems))

\* ------------------------------------------------------------------ main()
\* Where main goes after validateArgs, mutated: a thrown validation error is
\* swallowed and the run goes on to connect.
AfterValidateSwallow(r) ==
  IF r.kind \in {"help", "version"} THEN "exited" ELSE "connect"

\* Where main goes after validateArgs: help/version exit the process, an error
\* lands in the catch block, otherwise connect is next.
AfterValidate(r) ==
  IF r.kind \in {"help", "version"} THEN "exited"
  ELSE IF r.kind = "ok" THEN "connect"
  ELSE "catch"

\* await argParser.validateArgs()
ValidateArgs ==
  /\ pc = "validate"
  /\ LET r == validateArgs
     IN  /\ vres' = r
         /\ pc' = AfterValidate(r)
         /\ exit' = IF r.kind \in {"help", "version"} THEN "0" ELSE exit
         /\ err' = IF r.kind \in {"help", "version", "ok"} THEN err ELSE r.kind
  /\ UNCHANGED <<inputVars, sessionVars, loopVars, stressVars>>

\* pulsarManager.connect(ioThreads): loadUserConfig or the client constructor
\* may throw; createUserConfig exits with status 1 when it cannot save.
Connect ==
  /\ pc = "connect"
  /\ \E o \in {"ok", "throw", "exit"} :
       /\ client' = IF o = "ok" THEN "open" ELSE client
       /\ ioThreads' = IF o # "ok" THEN ioThreads
                       ELSE IF tool = "main" THEN getThreads.n ELSE defaultThreads
       /\ pc' = CASE o = "ok" -> "create" [] o = "throw" -> "catch" [] OTHER -> "exited"
       /\ err' = IF o = "throw" THEN "ConnectionError" ELSE err
       /\ exit' = IF o = "exit" THEN "1" ELSE exit
  /\ UNCHANGED <<inputVars, vres, producer, consumer, consumerKind, subscriptionType,
                 readerStart, seeks, orphan, readerNow, cleanups, closeLog, loopVars,
                 stressVars>>

\* The branch main takes after connect; the load generator always produces.
mainBranch ==
  IF tool = "stress" THEN "producer"
  ELSE IF hasParam("since") THEN "reader"
  ELSE IF hasParam("send") THEN "producer"
  ELSE "subscriber"

\* pulsarManager.createProducer(compression)
CreateProducer ==
  /\ pc = "create"
  /\ mainBranch = "producer"
  /\ \E o \in {"ok", "topicThrows", "createThrows"} :
       /\ producer' = CASE o = "ok" -> "open"
                        [] o = "createThrows" -> "wrapper"
                        [] OTHER -> producer
       /\ pc' = IF o # "ok" THEN "catch" ELSE IF tool = "main" THEN "send" ELSE "loop"
       /\ err' = IF o = "ok" THEN err ELSE "OperationError"
  /\ UNCHANGED <<inputVars, vres, exit, client, ioThreads, consumer, consumerKind,
                 subscriptionType, readerStart, seeks, orphan, readerNow, cleanups,
                 closeLog, loopVars, stressVars>>

\* createReader's startMessageId: earliest for the string 'earliest', latest
\* for any other string and for a timestamp.
startMessageId(sinceValue) ==
  IF sinceValue.t = "string" /\ sinceValue.s = "earliest" THEN "earliest" ELSE "latest"

\* createReader's seek test, mutated: a timestamp equal to now is sought too.
ShouldSeekAtOrBefore(sinceValue, now) == sinceValue.t = "number" /\ sinceValue.n <= now

\* createReader seeks when the since value is a number below now; NaN and
\* later timestamps fall back to 'latest'.
ShouldSeek(sinceValue, now) == sinceValue.t = "number" /\ sinceValue.n < now

\* pulsarManager.createConsumer(subscriptionType, readPosition) with
\* PulsarConsumer.create, createReader and createSubscriber.  The subscription
\* type is evaluated by main before the call; create tests hasParam('since')
\* itself.
CreateConsumer ==
  /\ pc = "create"
  /\ mainBranch \in {"reader", "subscriber"}
  /\ LET type == IF mainBranch = "reader" THEN "null" ELSE getSubscriptionType
         isReader == hasParam("since")
         sinceValue == getSinceValue
         start == startMessageId(sinceValue)
         timed == isReader /\ sinceValue.t \in {"number", "NaN"}
     IN  IF type = "throw"
         THEN /\ pc' = "catch"
              /\ err' = "InvalidSubscriptionType"
              /\ UNCHANGED <<consumer, consumerKind, subscriptionType, readerStart, seeks,
                             orphan, readerNow>>
         ELSE \E o \in {"ok", "topicThrows", "createThrows", "seekThrows"},
                 now \in IF timed THEN Nows ELSE {0} :
                LET willSeek == isReader /\ ShouldSeek(sinceValue, now)
                    made == o \in {"ok", "seekThrows"}
                IN  /\ o = "seekThrows" => willSeek
                    /\ consumer' = CASE o = "topicThrows" -> consumer
                                     [] o = "ok" -> "open"
                                     [] OTHER -> "wrapper"
                    /\ orphan' = (o = "seekThrows")
                    /\ consumerKind' = IF ~made THEN consumerKind
                                       ELSE IF isReader THEN "reader" ELSE "subscriber"
                    /\ subscriptionType' = IF ~isReader /\ o \in {"ok", "createThrows"}
                                           THEN type ELSE subscriptionType
                    /\ readerStart' = IF isReader /\ made THEN start ELSE readerStart
                    /\ readerNow' = IF made THEN now ELSE readerNow
                    /\ seeks' = IF made /\ willSeek THEN Append(seeks, sinceValue.n) ELSE seeks
                    /\ pc' = IF o = "ok" THEN "receive" ELSE "catch"
                    /\ err' = IF o = "ok" THEN err ELSE "OperationError"
  /\ UNCHANGED <<inputVars, vres, exit, client, ioThreads, producer, cleanups, closeLog,
                 loopVars, stressVars>>

\* pulsarManager.sendMessage(getValue('send'), getValue('key') || defaultKey)
\* and the success log; the try block then completes.
SendMessage ==
  /\ pc = "send"
  /\ \E o \in {"ok", "throw"} :
       /\ sent' = IF o = "ok"
                  THEN Append(sent, [msg |-> getValue("send").s,
                                     key |-> Or(getValue("key"), Str(defaultKey)).s])
                  ELSE sent
       /\ pc' = IF o = "ok" THEN "cleanup_producer" ELSE "catch"
       /\ err' = IF o = "ok" THEN err ELSE "OperationError"
  /\ UNCHANGED <<inputVars, vres, exit, sessionVars, loopVars, i, progress, sleeps>>

\* One iteration of the load generator's for loop: send, progress line,
\* sleep.
StressIteration ==
  /\ pc = "loop"
  /\ i <= messageCount
  /\ \E o \in {"ok", "throw"} :
       IF o = "ok"
       THEN /\ sent' = Append(sent, [msg |-> "Test message #" \o ToString(i),
                                     key |-> "key-" \o ToString(i % 5)])
            /\ progress' = IF i % 10 = 0 THEN progress + 1 ELSE progress
            /\ sleeps' = IF delayMs > 0 THEN sleeps + 1 ELSE sleeps
            /\ i' = i + 1
            /\ UNCHANGED <<pc, err>>
       ELSE /\ pc' = "catch"
            /\ err' = "OperationError"
            /\ UNCHANGED <<sent, progress, sleeps, i>>
  /\ UNCHANGED <<inputVars, vres, exit, sessionVars, loopVars>>

\* The for loop ends; the load generator logs completion and main returns.  It
\* has no finally block and never calls cleanup.
StressDone ==
  /\ pc = "loop"
  /\ i > messageCount
  /\ pc' = "returned"
  /\ UNCHANGED <<inputVars, vres, err, exit, sessionVars, loopVars, stressVars>>

\* catch (err): log the message and process.exit(1).  The process ends there:
\* main's finally block does not run.
Catch ==
  /\ pc = "catch"
  /\ pc' = "exited"
  /\ exit' = "1"
  /\ UNCHANGED <<inputVars, vres, err, sessionVars, loopVars, stressVars>>

\* ------------------------------------------------------- consumption loop
\* catch (err) inside the loop, mutated: every error is rethrown.
LoopCatchRethrowAll(name) == "catch"

\* catch (err) inside the loop: a TimeoutError continues, anything else is
\* rethrown to main.
LoopCatch(name) == IF name = "TimeoutError" THEN "receive" ELSE "catch"

\* handleMessage's test before acknowledge, mutated: readers acknowledge and
\* subscribers do not.
ShouldAckInverted(isReader) == isReader

\* handleMessage acknowledges unless the consumer is a reader.
ShouldAck(isReader) == ~isReader

\* const msg = await this.consumer[receiveMethod]()
Receive ==
  /\ pc = "receive"
  /\ \E o \in {"msg", "TimeoutError", "Error"} :
       /\ o = "msg" => received < MaxMsgs
       /\ o = "TimeoutError" => timeouts < MaxTimeouts
       /\ recvOutcome' = o
       /\ received' = IF o = "msg" THEN received + 1 ELSE received
       /\ timeouts' = IF o = "TimeoutError" THEN timeouts + 1 ELSE 0
       /\ pc' = IF o = "msg" THEN "handle" ELSE LoopCatch(o)
       /\ err' = IF o # "msg" /\ LoopCatch(o) = "catch" THEN "ReceiveError" ELSE err
  /\ UNCHANGED <<inputVars, vres, exit, sessionVars, logged, acked, stressVars>>

\* handleMessage up to its await: format and log the message.
HandleMessage ==
  /\ pc = "handle"
  /\ logged' = logged + 1
  /\ pc' = IF ShouldAck(hasParam("since")) THEN "ack" ELSE "receive"
  /\ UNCHANGED <<inputVars, vres, err, exit, sessionVars, received, acked, timeouts,
                 recvOutcome, stressVars>>

\* await this.consumer.acknowledge(msg), inside the loop's try block.
Acknowledge ==
  /\ pc = "ack"
  /\ acked' = acked + 1
  /\ \E o \in {"ok", "TimeoutError", "Error"} :
       /\ pc' = IF o = "ok" THEN "receive" ELSE LoopCatch(o)
       /\ err' = IF o # "ok" /\ LoopCatch(o) = "catch" THEN "AckError" ELSE err
  /\ UNCHANGED <<inputVars, vres, exit, sessionVars, received, logged, timeouts,
                 recvOutcome, stressVars>>

\* ---------------------------------------------------- PulsarManager.cleanup
\* Where cleanup goes after a close: on to the next resource, or out with the
\* rejection when the close threw (no try/catch around the awaits).
AfterClose(ok, next) == IF ok THEN next ELSE "exited"

\* One close of cleanup(), mutated: the tests for a resource that was never
\* created are missing and close is always called.
CloseStepUnguarded(w, name, next) ==
  \E ok \in BOOLEAN :
    /\ closeLog' = Append(closeLog, name)
    /\ w = "null" => ~ok
    /\ pc' = AfterClose(ok, next)
    /\ exit' = IF AfterClose(ok, next) = "exited" THEN "1" ELSE exit
    /\ err' = IF ok THEN err ELSE "CloseError"

\* One close of cleanup() on the wrapper `w` with handle name `name`: the
\* handle's close() is called when the manager holds the wrapper and the
\* wrapper holds a handle.
CloseStep(w, name, next) ==
  \E ok \in BOOLEAN :
    IF w \in {"open", "closed"}
    THEN /\ closeLog' = Append(closeLog, name)
         /\ pc' = AfterClose(ok, next)
         /\ exit' = IF AfterClose(ok, next) = "exited" THEN "1" ELSE exit
         /\ err' = IF ok THEN err ELSE "CloseError"
    ELSE /\ ok
         /\ pc' = next
         /\ UNCHANGED <<closeLog, exit, err>>

\* if (this.producer) await this.producer.close()
CleanupProducer ==
  /\ pc = "cleanup_producer"
  /\ CloseStep(producer, "producer", "cleanup_consumer")
  /\ producer' = IF producer = "open" /\ err' = err THEN "closed" ELSE producer
  /\ UNCHANGED <<inputVars, vres, client, ioThreads, consumer, consumerKind,
                 subscriptionType, readerStart, seeks, orphan, readerNow, cleanups,
                 loopVars, stressVars>>

\* if (this.consumer) await this.consumer.close()
CleanupConsumer ==
  /\ pc = "cleanup_consumer"
  /\ CloseStep(consumer, "consumer", "cleanup_client")
  /\ consumer' = IF consumer = "open" /\ err' = err THEN "closed" ELSE consumer
  /\ UNCHANGED <<inputVars, vres, client, ioThreads, producer, consumerKind,
                 subscriptionType, readerStart, seeks, orphan, readerNow, cleanups,
                 loopVars, stressVars>>

\* if (this.client) await this.client.close(); cleanup then returns.
CleanupClient ==
  /\ pc = "cleanup_client"
  /\ CloseStep(client, "client", "returned")
  /\ client' = IF client = "open" /\ err' = err THEN "closed" ELSE client
  /\ cleanups' = IF pc' = "returned" THEN cleanups + 1 ELSE cleanups
  /\ UNCHANGED <<inputVars, vres, ioThreads, producer, consumer, consumerKind,
                 subscriptionType, readerStart, seeks, orphan, readerNow, loopVars,
                 stressVars>>

Next ==
  \/ ValidateArgs
  \/ Connect
  \/ CreateProducer
  \/ CreateConsumer
  \/ SendMessage
  \/ StressIteration
  \/ StressDone
  \/ Catch
  \/ Receive
  \/ HandleMessage
  \/ Acknowledge
  \/ CleanupProducer
  \/ CleanupConsumer
  \/ CleanupClient

Spec == Init /\ [][Next]_vars

\* The validator applied to every argument list of up to MaxItems items.
SpecArgs == InitArgs /\ [][ValidateArgs]_vars

\* A call of argParser.getSubscriptionType() on the constructed parser; its
\* result, "throw" for the error, is kept in subscriptionType.
GetSubscriptionTypeCall ==
  /\ pc = "validate"
  /\ subscriptionType' = getSubscriptionType
  /\ pc' = "resolved"
  /\ UNCHANGED <<inputVars, vres, err, exit, client, ioThreads, producer, consumer,
                 consumerKind, readerStart, seeks, orphan, readerNow, cleanups, closeLog,
                 loopVars, stressVars>>

\* getSubscriptionType applied to every argument list of up to MaxItems items.
SpecSubType == InitArgs /\ [][GetSubscriptionTypeCall]_vars

\* A call of pulsarManager.cleanup() on a manager that created nothing: right
\* after construction, or after an earlier such call returned.
CallCleanup ==
  /\ pc \in {"validate", "returned"}
  /\ cleanups < MaxCleanups
  /\ pc' = "cleanup_producer"
  /\ UNCHANGED <<inputVars, vres, err, exit, sessionVars, loopVars, stressVars>>

\* cleanup() called repeatedly on the state the constructors leave.
SpecCleanup ==
  Init /\ [][CallCleanup \/ CleanupProducer \/ CleanupConsumer \/ CleanupClient]_vars

\* ----------------------------------------------------- vocabulary of claims
\* The tokens that name each flag.
Aliases ==
  [compression  |-> {"--compression", "-c"},
   help         |-> {"--help", "-h"},
   key          |-> {"--key"},
   send         |-> {"--send"},
   since        |-> {"--since"},
   subscription |-> {"--sub", "-s"},
   threads      |-> {"--threads", "-t"},
   topic        |-> {"--topic"},
   type         |-> {"--type"},
   version      |-> {"--version", "-v"}]

\* The flag is among the tokens of the argument list.
Supplied(param) == Aliases[param] \cap Range(args) # {}

SuppliedFlags == {param \in DOMAIN Aliases : Supplied(param)}

Validated == vres.kind # "none"

\* A handle of the broker client exists for the resource.
HasClient == client # "null"
HasProducer == producer \in {"open", "closed"}
HasConsumer == consumer \in {"open", "closed"} \/ orphan

\* Number of close() calls on the handle `name`.
Closes(name) == Cardinality({k \in 1..Len(closeLog) : closeLog[k] = name})

\* The process is over: process.exit was called, or main returned.
Ended == pc \in {"exited", "returned"}

\* C1 (as claimed): on every path by which a run ends after a connection,
\* producer or consumer/reader was created, each created resource has been
\* closed exactly once.
C1_CleanupOnEveryExit ==
  Ended =>
    /\ HasClient => Closes("client") = 1
    /\ HasProducer => Closes("producer") = 1
    /\ HasConsumer => Closes("consumer") = 1

\* C2: a validation error leaves no connection, producer, consumer or reader
\* behind, and nothing is connected or created before validation has passed.
C2_ValidationBeforeConnect ==
  (HasClient \/ producer # "null" \/ consumer # "null" \/ orphan \/ ioThreads # 0
     \/ pc \in {"connect", "create"} \/ err \in {"ConnectionError", "OperationError"})
    => vres.kind = "ok"

\* A run that ended on a validation error.
C2_Witness ==
  /\ pc = "exited"
  /\ exit = "1"
  /\ vres.kind \notin {"none", "ok", "help", "version"}

\* The argument list is well formed in everything but the topic name: no help
\* or version, required flags present, only allowed flags, a value after each
\* flag, valid threads, compression, since and type values.
WellFormedButTopic ==
  /\ ~Supplied("help") /\ ~Supplied("version")
  /\ \A param \in Range(MODES[mode].required) : Supplied(param)
  /\ SuppliedFlags \subseteq allowedParams
  /\ \A param \in SuppliedFlags : ~LacksValue(param)
  /\ Supplied("threads") =>
       (~IsNaN(parseInt(getValue("threads"))) /\ parseInt(getValue("threads")).n >= 1)
  /\ Supplied("compression") =>
       toUpperCase(getValue("compression").s) \in validCompressionTypes
  /\ Supplied("since") =>
       \/ toLowerCase(getValue("since").s) \in {"earliest", "latest"}
       \/ ~IsNaN(DateParse(getValue("since").s, legacy))
  /\ Supplied("type") => getValue("type").s \in validTypes

\* C3 (as claimed): a well-formed argument list passes validation whatever the
\* non-empty value of --topic is.
C3_AnyTopicNamePasses ==
  (Validated /\ Supplied("topic") /\ WellFormedButTopic /\ Truthy(getValue("topic")))
    => vres.kind = "ok"

\* No check that runs before the semantic checks has failed.
ReachedSemanticChecks ==
  vres.kind \notin {"none", "help", "version", "MissingRequired", "NotAllowedInMode",
                    "MissingValue"}

\* C4 (as claimed): in Send mode --threads 0 and --threads abc fail with the
\* invalid-thread-count error; --threads 4 passes that check and getThreads
\* returns 4.
C4_ThreadCountValidation ==
  (ReachedSemanticChecks /\ mode = "PRODUCER" /\ Supplied("threads")) =>
    /\ getValue("threads") \in {Str("0"), Str("abc")} => vres.kind = "InvalidThreadCount"
    /\ getValue("threads") = Str("4") =>
         (vres.kind # "InvalidThreadCount" /\ getThreads = Num(4))

\* C5: the mode is Send when --send is given, else ReadSince when --since is
\* given, else Consume, whatever other flags are given.
C5_ModeResolution ==
  mode = IF "--send" \in Range(args) THEN "PRODUCER"
         ELSE IF "--since" \in Range(args) THEN "READER"
         ELSE "CONSUMER"

\* Both --send and --since given, with a third flag.
C5_Witness ==
  /\ {"--send", "--since", "--key"} \subseteq Range(args)
  /\ mode = "PRODUCER"

\* C6: without help or version, a supplied flag outside the mode's allow-list
\* makes validation fail with the not-allowed error, also when a flag lacks its
\* value or a value is invalid.
C6_NotAllowedFirst ==
  (Validated /\ ~Supplied("help") /\ ~Supplied("version")
     /\ SuppliedFlags \ allowedParams # {})
    => vres.kind = "NotAllowedInMode"

\* --since together with --send, and some flag without a value.
C6_Witness ==
  /\ Validated
  /\ mode = "PRODUCER"
  /\ Supplied("since")
  /\ \E param \in SuppliedFlags : LacksValue(param)
  /\ vres.kind = "NotAllowedInMode"

\* The count asked for on the command line: the integer after --count.
RequestedCount == parseInt(ArgAt(args, indexOf(args, "--count") + 1))

\* C7 (as claimed): the load generator run with --count n, n >= 1, that meets
\* no error sends exactly n messages numbered 1..n in order and logs progress
\* after every 10th.
C7_SendsCountMessages ==
  (tool = "stress" /\ pc = "returned" /\ "--count" \in Range(args)
     /\ ~IsNaN(RequestedCount) /\ RequestedCount.n >= 1)
    => /\ Len(sent) = RequestedCount.n
       /\ \A k \in 1..Len(sent) : sent[k].msg = "Test message #" \o ToString(k)
       /\ progress = RequestedCount.n \div 10

\* cleanup() was called and is over.
CleanupOver == tool = "main" /\ (pc = "returned" \/ err = "CloseError")

\* The handles cleanup has to close, in its order.
HandlesToClose ==
  SelectSeq(<<"producer", "consumer", "client">>,
            LAMBDA name : CASE name = "producer" -> HasProducer
                            [] name = "consumer" -> consumer \in {"open", "closed"}
                            [] OTHER -> HasClient)

\* C8 (as claimed): cleanup attempts the close of the producer, the
\* consumer/reader and the connection, in that order, each of them even when
\* an earlier close failed.
C8_AllClosesAttempted == CleanupOver => closeLog = HandlesToClose

\* C9: a receive timeout leaves the loop at its next receive on the same
\* consumer with no error raised, however many timeouts came before; any other
\* receive error ends the loop and reaches main's catch.
C9_TimeoutContinues ==
  /\ recvOutcome = "TimeoutError" =>
       (pc = "receive" /\ err = "none" /\ exit = "running" /\ consumer = "open"
          /\ timeouts >= 1)
  /\ recvOutcome = "Error" =>
       (pc \in {"catch", "exited"} /\ err = "ReceiveError" /\ (pc = "exited" => exit = "1"))

\* Two timeouts in a row, and the loop is about to receive again.
C9_Witness == recvOutcome = "TimeoutError" /\ timeouts = 2 /\ pc = "receive"

\* C10: a subscription consumer acknowledges each received message once, after
\* logging it and before the next receive; a reader never acknowledges.
C10_AckOncePerMessage ==
  /\ acked <= logged /\ logged <= received
  /\ consumerKind = "subscriber" =>
       /\ pc = "handle" => (logged = received - 1 /\ acked = received - 1)
       /\ pc = "ack" => (logged = received /\ acked = received - 1)
       /\ pc \notin {"handle", "ack"} => (logged = received /\ acked = received)
  /\ consumerKind = "reader" =>
       /\ acked = 0
       /\ pc # "handle" => logged = received

\* A subscription consumer that received and acknowledged two messages.
C10_Witness ==
  consumerKind = "subscriber" /\ received = 2 /\ acked = 2 /\ pc = "receive"

\* C11: a reader for --since earliest (any letter case) starts at earliest and
\* one for --since latest at latest, neither with a seek; a timestamp before
\* the time of the reader's creation is sought exactly once; a timestamp at or
\* after it gives no seek, a start at latest and no error.
C11_ReaderStart ==
  consumerKind = "reader" =>
    LET raw == getValue("since").s
        low == toLowerCase(raw)
        ts == DateParse(raw, legacy)
    IN  /\ low = "earliest" => (readerStart = "earliest" /\ seeks = <<>>)
        /\ low = "latest" => (readerStart = "latest" /\ seeks = <<>>)
        /\ low \notin {"earliest", "latest"} =>
             /\ ts.t = "number"
             /\ ts.n < readerNow => seeks = <<ts.n>>
             /\ ts.n >= readerNow =>
                  (seeks = <<>> /\ readerStart = "latest" /\ ~orphan
                     /\ err # "OperationError")

\* A reader created for a timestamp equal to the time of its creation.
C11_Witness ==
  /\ consumerKind = "reader"
  /\ getValue("since") = Str("2024")
  /\ readerNow = DaysFromEpoch(2024)
  /\ seeks = <<>>
  /\ pc = "receive"

\* C12 (as claimed): getSubscriptionType returns KeyShared whenever key is
\* present; without key it returns the --type value if given and valid, else
\* Exclusive.
C12_TypeElseExclusive ==
  pc = "resolved" =>
    subscriptionType =
      IF Supplied("key") THEN "KeyShared"
      ELSE IF Truthy(getValue("type")) /\ getValue("type").s \in validTypes
           THEN getValue("type").s
      ELSE "Exclusive"

\* C12 (amended): getSubscriptionType returns KeyShared whenever key is
\* present; without key it returns the --type value if given and valid,
\* Exclusive if no value is given, and throws the invalid-type error if the
\* value given is not valid.
C12_SubscriptionTypeResolution ==
  pc = "resolved" =>
    subscriptionType =
      IF Supplied("key") THEN "KeyShared"
      ELSE IF ~Truthy(getValue("type")) THEN "Exclusive"
      ELSE IF getValue("type").s \in validTypes THEN getValue("type").s
      ELSE "throw"

\* --key together with --type Failover resolves to KeyShared.
C12_Witness ==
  /\ pc = "resolved"
  /\ Supplied("key")
  /\ getValue("type") = Str("Failover")
  /\ subscriptionType = "KeyShared"

\* C13: cleanup on a manager that created nothing calls no close, raises no
\* error and leaves the manager's state as constructed, however often it is
\* called.
C13_CleanupOnEmptyState ==
  /\ closeLog = <<>>
  /\ err = "none" /\ exit = "running" /\ pc # "exited"
  /\ client = "null" /\ producer = "null" /\ consumer = "null"
  /\ consumerKind = "none" /\ ~orphan /\ ioThreads = 0

\* cleanup has returned twice on a manager that created nothing.
C13_Witness == cleanups = 2 /\ pc = "returned" /\ closeLog = <<>> /\ client = "null"

\* The branch that the resolved mode stands for.
ModeBranch ==
  CASE mode = "PRODUCER" -> "producer"
    [] mode = "READER" -> "reader"
    [] OTHER -> "subscriber"

\* C14: in the main CLI, once validation has passed the branch taken is the
\* one of the resolved mode: a producer only in PRODUCER mode, a reader only in
\* READER mode, a subscriber only in CONSUMER mode, and never a producer
\* together with a consumer or reader.
C14_BranchAgreesWithMode ==
  tool = "main" =>
    /\ vres.kind = "ok" => mainBranch = ModeBranch
    /\ producer # "null" => mode = "PRODUCER"
    /\ consumerKind = "reader" => mode = "READER"
    /\ consumerKind = "subscriber" => mode = "CONSUMER"
    /\ ~(producer # "null" /\ (consumer # "null" \/ orphan))
    /\ pc = "send" => (mode = "PRODUCER" /\ producer = "open")
    /\ pc = "receive" => (consumer = "open" /\ consumerKind = ModeBranch)

\* A reader created in READER mode, now receiving.
C14_Witness ==
  tool = "main" /\ mode = "READER" /\ consumerKind = "reader" /\ pc = "receive"

\* C15: whenever the main CLI calls subscribe, the key flag is absent and the
\* type handed over is the validated --type value or Exclusive.
C15_NoKeyOverrideOnSubscribe ==
  (tool = "main" /\ subscriptionType # "none") =>
    /\ ~Supplied("key") /\ ~hasParam("key")
    /\ subscriptionType \in validTypes
    /\ subscriptionType =
         IF Truthy(getValue("type")) THEN getValue("type").s ELSE defaultType

\* A subscription created with the type given by --type.
C15_Witness ==
  /\ tool = "main"
  /\ subscriptionType = "Failover"
  /\ consumerKind = "subscriber"
  /\ consumer = "open"

====
